---- MODULE Spec2Model ----
\* Model of package table (src/table.go): a Decoder reads rows of text fields
\* from a FieldReader and sets the exported fields of a struct, positionally,
\* through the functions of its Modify map.
EXTENDS Integers, Sequences, FiniteSets, TLC

\* ---------------------------------------------------------------- bounds
MaxRowLen == 2      \* longest row the FieldReader yields
MaxRows == 2        \* rows a FieldReader holds before io.EOF
MaxFields == 3      \* fields of a destination struct
MaxDecoders == 2    \* Decoders constructed by NewDecoder
MaxMods == 2        \* changes a caller makes to a Modify map

\* strconv.IntSize on a 64-bit platform (reflect.Int, reflect.Uint).
IntSize == 64

\* ---------------------------------------------------------------- texts
\* A text field is a sequence of one-character strings.
Digits == {"0", "1", "2", "3", "4", "5", "6", "7", "8", "9"}

DigitVal(c) ==
  CASE c = "0" -> 0 [] c = "1" -> 1 [] c = "2" -> 2 [] c = "3" -> 3
    [] c = "4" -> 4 [] c = "5" -> 5 [] c = "6" -> 6 [] c = "7" -> 7
    [] c = "8" -> 8 [] c = "9" -> 9

\* The text fields a row is built from: "1", "-1", "300".
Texts == { <<"1">>, <<"-", "1">>, <<"3", "0", "0">> }

RECURSIVE SeqsUpTo(_, _)
SeqsUpTo(S, n) ==
  IF n = 0 THEN { <<>> }
  ELSE LET shorter == SeqsUpTo(S, n - 1)
       IN  shorter \cup { Append(s, x) : s \in shorter, x \in S }

Rows == SeqsUpTo(Texts, MaxRowLen)

\* ---------------------------------------------------------------- values
\* A field value: t is the class of the Go value, n its number, b its truth
\* value, s its text.
ValInt(n) == [t |-> "int", n |-> n, b |-> FALSE, s |-> <<>>]
ValUint(n) == [t |-> "uint", n |-> n, b |-> FALSE, s |-> <<>>]
ValFloat(n) == [t |-> "float", n |-> n, b |-> FALSE, s |-> <<>>]
ValBool(b) == [t |-> "bool", n |-> 0, b |-> b, s |-> <<>>]
ValString(s) == [t |-> "string", n |-> 0, b |-> FALSE, s |-> s]
ValComplex(n) == [t |-> "complex", n |-> n, b |-> FALSE, s |-> <<>>]

IntKinds == {"int", "int8", "int16", "int32", "int64"}
UintKinds == {"uint", "uint8", "uint16", "uint32", "uint64"}
FloatKinds == {"float32", "float64"}

BitSize(kind) ==
  CASE kind \in {"int8", "uint8"} -> 8
    [] kind \in {"int16", "uint16"} -> 16
    [] kind \in {"int32", "uint32", "float32"} -> 32
    [] kind \in {"int64", "uint64", "float64"} -> 64
    [] kind \in {"int", "uint"} -> IntSize

\* 2^(bitSize-1) - 1. Widths of 32 bits and more are capped at 2^31 - 1: a text
\* of the model has at most 3 digits, far below either value.
MaxSigned(bitSize) ==
  CASE bitSize = 8 -> 127 [] bitSize = 16 -> 32767 [] OTHER -> 2147483647

\* 2^bitSize - 1, capped the same way.
MaxUnsigned(bitSize) ==
  CASE bitSize = 8 -> 255 [] bitSize = 16 -> 65535 [] OTHER -> 2147483647

\* ---------------------------------------------------------------- strconv
RECURSIVE DecimalValue(_)
DecimalValue(ds) ==
  IF ds = <<>> THEN 0
  ELSE 10 * DecimalValue(SubSeq(ds, 1, Len(ds) - 1)) + DigitVal(ds[Len(ds)])

AllDigits(ds) == \A k \in 1..Len(ds) : ds[k] \in Digits

\* strconv.ParseUint(f, 10, bitSize): no sign accepted; the largest value of
\* the width with a range error on overflow, 0 with a syntax error otherwise.
ParseUint(f, bitSize) ==
  IF f = <<>> \/ ~AllDigits(f) THEN [n |-> 0, err |-> "syntax"]
  ELSE IF DecimalValue(f) > MaxUnsigned(bitSize)
       THEN [n |-> MaxUnsigned(bitSize), err |-> "range"]
       ELSE [n |-> DecimalValue(f), err |-> "nil"]

\* strconv.ParseInt(f, 10, bitSize): an optional sign, then ParseUint; the
\* nearest bound of the width with a range error when out of range.
ParseInt(f, bitSize) ==
  IF f = <<>> THEN [n |-> 0, err |-> "syntax"]
  ELSE LET neg == f[1] = "-"
           rest == IF f[1] \in {"+", "-"} THEN Tail(f) ELSE f
           un == ParseUint(rest, bitSize)
           max == MaxSigned(bitSize)   \* cutoff - 1
       IN  IF un.err = "syntax" THEN [n |-> 0, err |-> "syntax"]
           ELSE IF ~neg /\ (un.err = "range" \/ un.n > max)
                THEN [n |-> max, err |-> "range"]
           ELSE IF neg /\ (un.err = "range" \/ un.n - 1 > max)
                THEN [n |-> (0 - max) - 1, err |-> "range"]
           ELSE [n |-> IF neg THEN 0 - un.n ELSE un.n, err |-> "nil"]

\* strconv.ParseFloat on the texts of the model: an optionally signed run of
\* digits is that number, anything else a syntax error with 0.
ParseFloat(f) ==
  IF f = <<>> THEN [n |-> 0, err |-> "syntax"]
  ELSE LET neg == f[1] = "-"
           rest == IF f[1] \in {"+", "-"} THEN Tail(f) ELSE f
       IN  IF rest = <<>> \/ ~AllDigits(rest) THEN [n |-> 0, err |-> "syntax"]
           ELSE [n |-> IF neg THEN 0 - DecimalValue(rest) ELSE DecimalValue(rest),
                 err |-> "nil"]

TrueTexts == { <<"1">>, <<"t">>, <<"T">>, <<"T", "R", "U", "E">>,
               <<"t", "r", "u", "e">>, <<"T", "r", "u", "e">> }
FalseTexts == { <<"0">>, <<"f">>, <<"F">>, <<"F", "A", "L", "S", "E">>,
                <<"f", "a", "l", "s", "e">>, <<"F", "a", "l", "s", "e">> }

\* strconv.ParseBool.
ParseBool(f) ==
  IF f \in TrueTexts THEN [b |-> TRUE, err |-> "nil"]
  ELSE IF f \in FalseTexts THEN [b |-> FALSE, err |-> "nil"]
  ELSE [b |-> FALSE, err |-> "syntax"]
\* ---------------------------------------------------------------- registry
\* A conversion function of defaultMods is named by the Kind it is installed
\* under. A registry (a Go map) is a function from the Kinds that have an
\* entry to the names of their conversion functions.
DefaultKinds == {"bool", "string"} \cup IntKinds \cup UintKinds \cup FloatKinds

DefaultRegistry == [k \in DefaultKinds |-> k]

\* The value a n has once stored in a signed field of the given width.
WrapSigned(n, bitSize) ==
  CASE bitSize = 8 -> ((n + 128) % 256) - 128
    [] bitSize = 16 -> ((n + 32768) % 65536) - 32768
    [] OTHER -> n

WrapUnsigned(n, bitSize) ==
  CASE bitSize = 8 -> n % 256
    [] bitSize = 16 -> n % 65536
    [] OTHER -> n

\* m(&fv, text) for the conversion function fn on a settable field of Kind
\* kind: the value it stores, the error it returns, and whether the reflect
\* setter panics because the field is of another class of Kind. The value is
\* stored before the error is returned.
Apply(fn, kind, text) ==
  CASE fn = "bool" ->
         LET r == ParseBool(text)
         IN  [panic |-> kind # "bool", val |-> ValBool(r.b), err |-> r.err]
    [] fn = "string" ->
         [panic |-> kind # "string", val |-> ValString(text), err |-> "nil"]
    [] fn \in IntKinds ->
         LET r == ParseInt(text, BitSize(fn))
         IN  [panic |-> kind \notin IntKinds,
              val |-> ValInt(IF kind \in IntKinds
                             THEN WrapSigned(r.n, BitSize(kind)) ELSE r.n),
              err |-> r.err]
    [] fn \in UintKinds ->
         LET r == ParseUint(text, BitSize(fn))
         IN  [panic |-> kind \notin UintKinds,
              val |-> ValUint(IF kind \in UintKinds
                              THEN WrapUnsigned(r.n, BitSize(kind)) ELSE r.n),
              err |-> r.err]
    [] fn \in FloatKinds ->
         LET r == ParseFloat(text)
         IN  [panic |-> kind \notin FloatKinds, val |-> ValFloat(r.n),
              err |-> r.err]
    [] fn = "complex64" ->
         [panic |-> kind # "complex64", val |-> ValComplex(1), err |-> "nil"]
\* ---------------------------------------------------------------- targets
\* The Kinds the fields of a destination struct are drawn from; complex64 has
\* no entry in defaultMods.
FieldKinds == {"int8", "uint8", "string", "complex64"}

\* A struct field: its Kind and whether its name is exported. An unexported
\* field is of a Kind with an entry in defaultMods or of one without.
FieldTypes ==
  [kind : FieldKinds, exported : {TRUE}]
  \cup [kind : {"int8", "complex64"}, exported : {FALSE}]

Shapes == SeqsUpTo(FieldTypes, MaxFields)

UpperNames == <<"A", "B", "C", "D", "E", "F">>
LowerNames == <<"a", "b", "c", "d", "e", "f">>

\* t.Field(i).Name: the i-th field is named by its position, in upper case
\* when exported.
FieldName(shape, i) ==
  IF shape[i].exported THEN UpperNames[i] ELSE LowerNames[i]

\* The zero value of a Kind, and a value no conversion of a text of the
\* model produces.
ZeroValue(kind) ==
  CASE kind \in IntKinds -> ValInt(0)
    [] kind \in UintKinds -> ValUint(0)
    [] kind \in FloatKinds -> ValFloat(0)
    [] kind = "bool" -> ValBool(FALSE)
    [] kind = "string" -> ValString(<<>>)
    [] OTHER -> ValComplex(0)

UsedValue(kind) ==
  CASE kind \in IntKinds -> ValInt(7)
    [] kind \in UintKinds -> ValUint(7)
    [] kind \in FloatKinds -> ValFloat(7)
    [] kind = "bool" -> ValBool(TRUE)
    [] kind = "string" -> ValString(<<"o", "l", "d">>)
    [] OTHER -> ValComplex(7)

\* The argument s of Decode. kind is the Kind of reflect.TypeOf(s) ("nil"
\* for the nil interface); elem is the Kind of its element type, "none" when
\* the type has none (Type.Elem panics); shape and vals are the fields of
\* the struct s is or points to, vals alone the value of a scalar.
NilTarget == [kind |-> "nil", elem |-> "none", shape |-> <<>>, vals |-> <<>>]

StructTargets(kind, elem) ==
  { [kind |-> kind, elem |-> elem, shape |-> sh,
     vals |-> [i \in 1..Len(sh) |-> ZeroValue(sh[i].kind)]] : sh \in Shapes }
  \cup
  { [kind |-> kind, elem |-> elem, shape |-> sh,
     vals |-> [i \in 1..Len(sh) |-> UsedValue(sh[i].kind)]] : sh \in Shapes }

ScalarTarget(kind, elem) ==
  [kind |-> kind, elem |-> elem, shape |-> <<>>, vals |-> <<ValInt(7)>>]

\* &x for a struct x (a pointer that is not nil).
PtrStructTargets == StructTargets("ptr", "struct")

\* nil, &n for an int n, an int, a []int, a struct by value, a []struct.
NonStructPtrTargets ==
  { NilTarget, ScalarTarget("ptr", "int"), ScalarTarget("int", "none"),
    ScalarTarget("slice", "int") }
  \cup { t \in StructTargets("struct", "none") : Len(t.shape) = 1 }
  \cup { t \in StructTargets("slice", "struct") : Len(t.shape) = 1 }

Targets == PtrStructTargets \cup NonStructPtrTargets

\* ---------------------------------------------------------------- errors
NoError == [type |-> "nil", RowLen |-> 0, StructLen |-> 0, MissingField |-> "",
            kind |-> ""]
RowError(rowLen, structLen, missingField) ==
  [type |-> "RowError", RowLen |-> rowLen, StructLen |-> structLen,
   MissingField |-> missingField, kind |-> ""]
\* Variant: no error is returned for an unregistered Kind.
DecodeErrorDropped(kind) == NoError

DecodeError(kind) ==
  [type |-> "DecodeError", RowLen |-> 0, StructLen |-> 0, MissingField |-> "",
   kind |-> kind]
\* An error of the FieldReader: "EOF" for io.EOF, "ErrRead" for a failed read.
ReadError(e) == [NoError EXCEPT !.type = e]
\* A run-time panic of package reflect: Decode does not return.
Panic == [NoError EXCEPT !.type = "panic"]
\* No call has been made.
NoCall == [NoError EXCEPT !.type = "none"]
\* ---------------------------------------------------------------- Decode
\* Variant: every field is taken to be settable.
CanSetAlways(ft) == TRUE

\* fv.CanSet() for a field of a struct reached through a pointer.
CanSet(ft) == ft.exported

\* j >= len(fields): the row has no text field left for a settable field.
RowExhausted(j, fields) == j >= Len(fields)

\* m, ok := d.Modify[f.Type.Kind()]
Registered(reg, kind) == kind \in DOMAIN reg

\* Variant: StructLen is the number of exported fields of the struct.
ShortRowErrorCountsFields(fields, j, shape, i) ==
  RowError(Len(fields),
           Cardinality({ m \in 1..Len(shape) : shape[m].exported }),
           FieldName(shape, i))

\* RowError{ len(fields), j, t.Field(i).Name }
ShortRowError(fields, j, shape, i) ==
  RowError(Len(fields), j, FieldName(shape, i))

\* Variant: StructLen is the length of the row.
LongRowErrorRowLen(fields, j) == RowError(Len(fields), Len(fields), "")

\* RowError{ len(fields), j, "" }
LongRowError(fields, j) == RowError(Len(fields), j, "")

\* Variant: the loop returns the error of the conversion function.
StopsOnAnyError(err) == err # "nil"

\* Whether the loop stops on the error m returns: the call statement
\* m(&fv, fields[j]) drops it.
StopsOnError(err) == FALSE

\* Variant: the cursor is not advanced.
NextCursorStuck(j) == j

\* The cursor into the row after a field has been set: j++.
NextCursor(j) == j + 1

\* The loop over the fields of the struct from field i on (i counts from 1,
\* the cursor j from 0 as in the source). st holds j, the values of the
\* fields, the indices of the fields set so far and of those whose
\* conversion function returned an error.
RECURSIVE Walk(_, _, _, _, _)
Walk(reg, shape, fields, i, st) ==
  IF i > Len(shape)
  THEN [st EXCEPT !.ret = IF st.j < Len(fields)
                          THEN LongRowError(fields, st.j) ELSE NoError]
  ELSE IF ~CanSet(shape[i]) THEN Walk(reg, shape, fields, i + 1, st)
  ELSE IF RowExhausted(st.j, fields)
  THEN [st EXCEPT !.ret = ShortRowError(fields, st.j, shape, i)]
  ELSE IF ~Registered(reg, shape[i].kind)
  THEN [st EXCEPT !.ret = DecodeError(shape[i].kind)]
  ELSE LET a == Apply(reg[shape[i].kind], shape[i].kind, fields[st.j + 1])
       IN  IF a.panic THEN [st EXCEPT !.ret = Panic]
           ELSE LET set == [st EXCEPT !.vals[i] = a.val,
                                      !.written = @ \cup {i},
                                      !.converr = IF a.err = "nil" THEN @
                                                  ELSE @ \cup {i}]
                IN  IF StopsOnError(a.err)
                    THEN [set EXCEPT !.ret = ReadError(a.err)]
                    ELSE Walk(reg, shape, fields, i + 1,
                              [set EXCEPT !.j = NextCursor(st.j)])

\* What Decode(s) does once d.r.Read() has returned rd, under the registry
\* reg: its return value, the values of the fields of s afterwards, and the
\* fields it set.
DecodeBody(reg, s, rd) ==
  LET st0 == [ret |-> NoError, j |-> 0, vals |-> s.vals,
              written |-> {}, converr |-> {}]
  IN  IF rd.err # "nil" THEN [st0 EXCEPT !.ret = ReadError(rd.err)]
      ELSE IF s.kind = "nil" THEN st0
      ELSE IF s.kind # "ptr" /\ s.elem = "none"
      THEN [st0 EXCEPT !.ret = Panic]          \* t.Elem() of a type without one
      ELSE IF s.kind # "ptr" /\ s.elem # "struct" THEN st0
      ELSE IF s.kind # "ptr"
      THEN [st0 EXCEPT !.ret = Panic]          \* reflect.ValueOf(s).Elem()
      ELSE IF s.elem # "struct"
      THEN [st0 EXCEPT !.ret = Panic]          \* t.NumField() of a non-struct
      ELSE Walk(reg, s.shape, rd.fields, 1, st0)

\* ---------------------------------------------------------------- state
VARIABLES
  defaultMods,   \* the package-level map of conversion functions
  decoders,      \* the Decoders constructed: Modify names the map it refers to
  readers,       \* the FieldReader of each Decoder: rows held, Reads made
  calls,         \* Decode calls made on each Decoder
  mods,          \* changes made to Modify maps so far
  touched,       \* the Decoders through whose Modify field a change was made
  op,            \* the last operation and the Decoder it was made on
  before,        \* the argument of the last Decode call as it was passed
  fields,        \* what Read returned to the last Decode call
  out            \* the last Decode call's return value and effect on s

vars ==
  <<defaultMods, decoders, readers, calls, mods, touched, op, before, fields,
    out>>

\* d.Modify for the Decoder d: the map its Modify field refers to.
Modify(d) == defaultMods

\* d.r.Read(): a row or a failure while the reader holds rows, io.EOF after.
Read(reader) ==
  IF reader.reads < reader.held
  THEN { [err |-> "nil", fields |-> r] : r \in Rows }
       \cup { [err |-> "ErrRead", fields |-> <<>>] }
  ELSE { [err |-> "EOF", fields |-> <<>>] }

NoOutcome == [ret |-> NoCall, j |-> 0, vals |-> <<>>, written |-> {},
              converr |-> {}]

\* NewDecoder(r): Decoder{defaultMods, r}.
NewDecoderValue == [Modify |-> "defaultMods"]

Init ==
  /\ defaultMods = DefaultRegistry
  /\ decoders = << NewDecoderValue >>
  /\ \E n \in 0..MaxRows : readers = << [held |-> n, reads |-> 0] >>
  /\ calls = << 0 >>
  /\ mods = 0
  /\ touched = {}
  /\ op = [name |-> "NewDecoder", d |-> 1]
  /\ before = NilTarget
  /\ fields = [err |-> "nil", fields |-> <<>>]
  /\ out = NoOutcome

\* Variant: a row of the wrong length is skipped and the next one read.
ReadsMadeRetry(o) == IF o.ret.type = "RowError" THEN 2 ELSE 1

\* The calls of d.r.Read() one Decode call makes: the one of its first
\* statement, whatever it goes on to return.
ReadsMade(o) == 1

\* err := d.Decode(s)
Decode(d, s) ==
  /\ readers[d].reads <= readers[d].held
  /\ \E rd \in Read(readers[d]) :
       /\ fields' = rd
       /\ out' = DecodeBody(Modify(d), s, rd)
       /\ readers' = [readers EXCEPT ![d].reads = @ + ReadsMade(out')]
  /\ calls' = [calls EXCEPT ![d] = @ + 1]
  /\ before' = s
  /\ op' = [name |-> "Decode", d |-> d]
  /\ UNCHANGED <<defaultMods, decoders, mods, touched>>

\* The caller's loop goes round: it has looked at err and at s, and its next
\* iteration declares its own s. Nothing of the call is left but what the
\* Decoder and its FieldReader keep.
Continue ==
  /\ op.name = "Decode"
  /\ out.ret.type # "panic"
  /\ op' = [name |-> "Continue", d |-> op.d]
  /\ before' = NilTarget
  /\ fields' = [err |-> "nil", fields |-> <<>>]
  /\ out' = NoOutcome
  /\ UNCHANGED <<defaultMods, decoders, readers, calls, mods, touched>>

\* The program is not inside a call, nor ended by a panic.
Ready == op.name # "Decode"

\* A program with one Decoder calls Decode on a target of any type.
Call ==
  /\ Ready
  /\ \E s \in Targets : Decode(1, s)

Next ==
  \/ Call
  \/ Continue

Spec == Init /\ [][Next]_vars

\* ---------------------------------------------------------------- callers
\* A program that constructs further Decoders and changes Modify maps.

\* The Kinds whose entry a caller changes and the conversion functions it
\* installs: two of defaultMods, and one of its own for complex64 (named
\* "complex64" in Apply).
ModKinds == {"int8", "complex64"}
ModFuncs == {"int16", "string", "complex64"}

\* The structs decoded while registries are changed.
RegShapes ==
  { << [kind |-> "int8", exported |-> TRUE] >>,
    << [kind |-> "complex64", exported |-> TRUE] >>,
    << [kind |-> "bool", exported |-> TRUE] >>,
    << [kind |-> "float32", exported |-> TRUE] >>,
    << [kind |-> "string", exported |-> TRUE],
       [kind |-> "int8", exported |-> TRUE] >> }

RegTargets ==
  { [kind |-> "ptr", elem |-> "struct", shape |-> sh,
     vals |-> [i \in 1..Len(sh) |-> ZeroValue(sh[i].kind)]] : sh \in RegShapes }

\* dec := NewDecoder(r), r a FieldReader holding one row.
NewDecoder ==
  /\ Ready
  /\ Len(decoders) < MaxDecoders
  /\ decoders' = Append(decoders, NewDecoderValue)
  /\ readers' = Append(readers, [held |-> 1, reads |-> 0])
  /\ calls' = Append(calls, 0)
  /\ op' = [name |-> "NewDecoder", d |-> Len(decoders) + 1]
  /\ UNCHANGED <<defaultMods, mods, touched, before, fields, out>>

\* d.Modify[k] = fn
ModifySet(d, k, fn) ==
  /\ Ready
  /\ mods < MaxMods
  /\ defaultMods' = [x \in DOMAIN defaultMods \cup {k} |->
                       IF x = k THEN fn ELSE defaultMods[x]]
  /\ mods' = mods + 1
  /\ touched' = touched \cup {d}
  /\ op' = [name |-> "ModifySet", d |-> d]
  /\ UNCHANGED <<decoders, readers, calls, before, fields, out>>

\* delete(d.Modify, k)
ModifyDelete(d, k) ==
  /\ Ready
  /\ mods < MaxMods
  /\ defaultMods' = [x \in DOMAIN defaultMods \ {k} |-> defaultMods[x]]
  /\ mods' = mods + 1
  /\ touched' = touched \cup {d}
  /\ op' = [name |-> "ModifyDelete", d |-> d]
  /\ UNCHANGED <<decoders, readers, calls, before, fields, out>>

CallAny ==
  /\ Ready
  /\ \E d \in 1..Len(decoders), s \in RegTargets : Decode(d, s)

NextReg ==
  \/ NewDecoder
  \/ \E d \in 1..Len(decoders), k \in ModKinds, fn \in ModFuncs :
       ModifySet(d, k, fn)
  \/ \E d \in 1..Len(decoders), k \in ModKinds : ModifyDelete(d, k)
  \/ CallAny
  \/ Continue

SpecReg == Init /\ [][NextReg]_vars

\* ---------------------------------------------------------------- properties
\* What the properties speak of: the call that has just returned.
Returned == op.name = "Decode"
GotRow == Returned /\ fields.err = "nil"
Row == fields.fields
OnStruct == before.kind = "ptr" /\ before.elem = "struct"
Shape == before.shape
Registry == Modify(op.d)

\* The settable fields of the struct, their number, the place of field i
\* among them and the k-th of them in declaration order.
Exported == { i \in 1..Len(Shape) : Shape[i].exported }
NumExported == Cardinality(Exported)
Rank(i) == Cardinality({ m \in Exported : m <= i })
NthExported(k) == CHOOSE i \in Exported : Rank(i) = k
Unregistered == { i \in Exported : Shape[i].kind \notin DOMAIN Registry }
AllRegistered == Unregistered = {}
Least(S) == CHOOSE i \in S : \A m \in S : i <= m

\* The number a text stands for, written out for the texts of the model.
Denotes(text) ==
  CASE text = <<"1">> -> 1
    [] text = <<"-", "1">> -> 0 - 1
    [] text = <<"3", "0", "0">> -> 300

\* Whether a text is convertible to a Kind, and the value it then converts to.
Convertible(kind, text) ==
  CASE kind = "int8" -> Denotes(text) \in (0 - 128)..127
    [] kind = "uint8" -> Denotes(text) \in 0..255
    [] kind = "string" -> TRUE
    [] OTHER -> FALSE

Conversion(kind, text) ==
  CASE kind = "int8" -> ValInt(Denotes(text))
    [] kind = "uint8" -> ValUint(Denotes(text))
    [] kind = "string" -> ValString(text)

\* The text field that falls to the settable field i.
TextOf(i) == Row[Rank(i)]

\* The settable fields a text field of the row falls to.
Matched == { i \in Exported : Rank(i) <= Len(Row) }
Failing == { i \in Matched : ~Convertible(Shape[i].kind, TextOf(i)) }

\* What the lengths of the row and of the struct alone make Decode return.
ByLength ==
  IF Len(Row) < NumExported
  THEN RowError(Len(Row), Len(Row), UpperNames[NthExported(Len(Row) + 1)])
  ELSE IF Len(Row) > NumExported
  THEN RowError(Len(Row), NumExported, "")
  ELSE NoError

\* C1: a row of exactly as many convertible text fields as the struct has
\* settable fields, all of registered Kinds: Decode returns nil, the k-th
\* settable field holds the conversion of the k-th text field, and every
\* other field keeps its value and takes no text field.
C1_DecodesRow ==
  (/\ GotRow /\ OnStruct /\ AllRegistered
   /\ Len(Row) = NumExported
   /\ Failing = {})
  => /\ out.ret = NoError
     /\ \A i \in Exported :
          out.vals[i] = Conversion(Shape[i].kind, TextOf(i))
     /\ \A i \in (1..Len(Shape)) \ Exported :
          out.vals[i] = before.vals[i] /\ i \notin out.written
     /\ out.j = NumExported

C1_Witness ==
  /\ GotRow /\ OnStruct /\ AllRegistered
  /\ Len(Row) = NumExported /\ Failing = {}
  /\ NumExported = 2 /\ ~Shape[1].exported
  /\ Row[1] # Row[2]
  /\ before.vals[1] = UsedValue(Shape[1].kind)
  /\ out.ret = NoError

\* C2: given a row, Decode on a target that is not a pointer to a struct
\* returns nil and leaves the target as it was.
C2_NonStructIsNoOp ==
  (GotRow /\ ~OnStruct) => (out.ret = NoError /\ out.vals = before.vals)

\* C3 as stated: a struct with a settable field of an unregistered Kind gets
\* a DecodeError naming that Kind from every row, whatever its length.
C3_AnyRowDecodeError ==
  (GotRow /\ OnStruct /\ ~AllRegistered)
  => /\ out.ret.type = "DecodeError"
     /\ \E i \in Unregistered : out.ret.kind = Shape[i].kind

\* C3 amended: Decode returns the DecodeError naming the Kind of the first
\* settable field of an unregistered Kind when the row has more text fields
\* than there are settable fields before that field; a row with no text field
\* for it gets the RowError of a short row.
C3_DecodeErrorWhenReached ==
  (GotRow /\ OnStruct /\ ~AllRegistered)
  => LET u == Least(Unregistered)
     IN  IF Len(Row) >= Rank(u)
         THEN out.ret.type = "DecodeError" /\ out.ret.kind = Shape[u].kind
         ELSE out.ret = ByLength

C3_Witness ==
  /\ GotRow /\ OnStruct /\ ~AllRegistered
  /\ Rank(Least(Unregistered)) = 2
  /\ Len(Row) = 2 /\ NumExported = 3
  /\ out.ret.type = "DecodeError" /\ out.ret.kind = "complex64"

C5_StructLenCountsFields ==
  (GotRow /\ OnStruct /\ Len(Row) < NumExported
   /\ out.ret.type = "RowError")
  => (out.ret.StructLen = NumExported /\ out.ret.RowLen = Len(Row))

C6_WitnessNoField ==
  /\ GotRow /\ OnStruct /\ Len(Shape) = 1 /\ NumExported = 0
  /\ out.ret = RowError(Len(Row), 0, "")

\* C7: every Decode call makes one Read, whatever it returns; the k-th call
\* on a FieldReader holding n rows gets the k-th row when k <= n and io.EOF,
\* returned as it is, when k = n + 1.
C7_OneReadPerCall ==
  /\ \A d \in 1..Len(decoders) : readers[d].reads = calls[d]
  /\ Returned =>
       /\ (fields.err = "EOF") <=> (calls[op.d] > readers[op.d].held)
       /\ fields.err # "nil" => out.ret = ReadError(fields.err)
       /\ (OnStruct /\ fields.err = "nil")
            => out.ret.type \in {"nil", "RowError", "DecodeError"}

C7_Witness ==
  /\ Returned /\ OnStruct
  /\ readers[1].held = 2 /\ calls[1] = 3
  /\ out.ret = ReadError("EOF")

\* C9: a conversion function that reports a failure changes nothing of what
\* Decode does: the field is set, the cursor moves on, the fields after it
\* are handled, and Decode returns what the lengths alone decide.
C9_ParseFailureDiscarded ==
  (GotRow /\ OnStruct /\ AllRegistered /\ Failing # {})
  => /\ out.converr = Failing
     /\ out.written = Matched
     /\ out.j = Cardinality(Matched)
     /\ out.ret = ByLength

C9_Witness ==
  /\ GotRow /\ OnStruct /\ AllRegistered
  /\ NumExported = 2 /\ Len(Row) = 2
  /\ Failing = {NthExported(1)}
  /\ out.written = Exported
  /\ out.vals[NthExported(2)] = Conversion(Shape[NthExported(2)].kind, Row[2])
  /\ out.ret = NoError

\* The field at which a call that returns an error stops: the first settable
\* field without a text field or of an unregistered Kind, and past the last
\* field when the row has text fields left over.
FailurePoint ==
  LET stops == Unregistered \cup (Exported \ Matched)
  IN  IF stops = {} THEN Len(Shape) + 1 ELSE Least(stops)

\* C10: when Decode returns an error the fields it has set are the settable
\* fields before the point of failure (none for an error of the reader, all
\* for a row with text fields left over), and every other field has the
\* value it had before the call.
C10_WrittenBeforeFailure ==
  (Returned /\ OnStruct
   /\ out.ret.type \in {"EOF", "ErrRead", "RowError", "DecodeError"})
  => /\ out.written = IF fields.err # "nil" THEN {}
                      ELSE { i \in Exported : i < FailurePoint }
     /\ \A i \in (1..Len(Shape)) \ out.written :
          out.vals[i] = before.vals[i]
     /\ \A i \in out.written \ out.converr :
          out.vals[i] = Conversion(Shape[i].kind, TextOf(i))

C10_Witness ==
  /\ GotRow /\ OnStruct
  /\ Len(Shape) = 3 /\ Exported = {1, 2, 3}
  /\ out.ret.type = "DecodeError"
  /\ out.written = {1}
  /\ before.vals[2] = UsedValue(Shape[2].kind)
  /\ before.vals[3] = UsedValue(Shape[3].kind)
  /\ out.vals[1] # before.vals[1]

\* C8: a change made through one Decoder's Modify map leaves the registry
\* of every other Decoder, and the registry NewDecoder installs, as they
\* were: those of defaultMods as declared.
C8_RegistryPerDecoder ==
  /\ \A d \in (1..Len(decoders)) \ touched : Modify(d) = DefaultRegistry
  /\ defaultMods = DefaultRegistry
====
